---------------------------- MODULE Spec2Model ----------------------------
(***************************************************************************)
(* A model of stevensStringLib (src/stevensStringLib.h).                   *)
(*                                                                         *)
(* A text (std::string) is a sequence of one-character strings.  Offsets   *)
(* are the zero-based offsets of the C++ code; the sequence element at    *)
(* offset p is s[p + 1].                                                   *)
(*                                                                         *)
(* The library is a set of free functions.  The state is one caller: the   *)
(* arguments it holds, the function it called last and what came back,    *)
(* and the process-wide state the library reads (the locale imbued in     *)
(* std::cout and the locale of the environment).                           *)
(***************************************************************************)
EXTENDS Integers, Sequences, FiniteSets

VARIABLES
    fn,         \* the library function called last ("none" before any call)
    str,        \* the caller's text argument (str / input)
    sub,        \* the caller's second text argument (separator / substr)
    num,        \* the caller's int argument (charsToTrim / wrapWidth)
    omit,       \* the caller's bool argument (omitEmptyStrings)
    ret,        \* the value the call returned
    raised,     \* how the call ended: "none" (returned), "crash" (undefined
                \* behaviour took the process down), or the name of an exception
    coutPoint,  \* decimal_point() of the locale imbued in std::cout
    envLocale,  \* the locale the environment names, which std::locale("") builds
    frame       \* the locals of a call that is run statement by statement
                \* (NoFrame when no such call is in progress)

vars == <<fn, str, sub, num, omit, ret, raised, coutPoint, envLocale, frame>>

\* no call is in progress
NoFrame == [pc |-> "none"]

----------------------------------------------------------------------------
(* Bounds of the model *)

MaxLen == 4         \* longest text given to separate / findAll / contains
MaxSepLen == 2      \* longest separator / search target
MaxTextLen == 4     \* longest text given to trim / wrapToWidth
MaxCount == 3       \* largest charsToTrim / wrapWidth
MaxNegative == 2    \* the most negative charsToTrim / wrapWidth is -MaxNegative
MaxNumLen == 4      \* longest text given to isInteger / isFloat / isNumber

(* Alphabets the inputs are drawn from *)
SepChars == {"a", "b", ","}
TextChars == {"a", "b", " ", "\t", "\n"}
NumChars == {"0", "1", "-", ".", ",", "x"}

RECURSIVE TextsUpTo(_, _)
TextsUpTo(chars, n) ==
    IF n = 0 THEN {<< >>}
    ELSE LET shorter == TextsUpTo(chars, n - 1)
         IN  shorter \cup {Append(t, c) : t \in {u \in shorter : Len(u) = n - 1}, c \in chars}

----------------------------------------------------------------------------
(* std::string primitives *)

\* std::string::npos, the largest size_t; written as the value it has when
\* read as a signed integer, which is also what `int result = str.find(..)`
\* stores (line 65) and what `lineCutOffIndex == npos` compares (line 778).
npos == -1

Min(a, b) == IF a < b THEN a ELSE b

\* Comparisons of two size_t values.  An int converted to size_t keeps its
\* bit pattern, so a negative int is a size_t above every length; such
\* values are written as that negative number.
ULess(a, b) == IF (a < 0) = (b < 0) THEN a < b ELSE b < 0

ULessEq(a, b) == a = b \/ ULess(a, b)

\* does target occur in s at offset p
MatchAt(s, target, p) ==
    /\ p >= 0
    /\ p + Len(target) <= Len(s)
    /\ \A k \in 1..Len(target) : s[p + k] = target[k]

\* find, except that an empty target finds nothing at the very end of s
find_NoMatchAtEnd(s, target, pos) ==
    LET hits == {p \in pos..(Len(s) - 1) : MatchAt(s, target, p)}
    IN  IF hits = {} THEN npos ELSE CHOOSE p \in hits : \A q \in hits : p <= q

\* s.find(target, pos)
find(s, target, pos) ==
    LET hits == {p \in pos..Len(s) : MatchAt(s, target, p)}
    IN  IF hits = {} THEN npos ELSE CHOOSE p \in hits : \A q \in hits : p <= q

\* rfind giving the first match at or before pos, as find would
rfind_FirstMatch(s, target, pos) ==
    LET hits == {p \in 0..Min(pos, Len(s)) : MatchAt(s, target, p)}
    IN  IF hits = {} THEN npos ELSE CHOOSE p \in hits : \A q \in hits : p <= q

\* rfind without its pos argument: the last match anywhere in s
rfind_IgnoresPos(s, target, pos) ==
    LET hits == {p \in 0..Len(s) : MatchAt(s, target, p)}
    IN  IF hits = {} THEN npos ELSE CHOOSE p \in hits : \A q \in hits : q <= p

\* s.rfind(target, pos)
rfind(s, target, pos) ==
    LET hits == {p \in 0..Min(pos, Len(s)) : MatchAt(s, target, p)}
    IN  IF hits = {} THEN npos ELSE CHOOSE p \in hits : \A q \in hits : q <= p

\* s.substr(pos, n), for pos <= s.size()
substr(s, pos, n) == SubSeq(s, pos + 1, Min(pos + n, Len(s)))

\* s.substr(pos) that starts one character earlier (pos >= 1)
substrFrom_OneEarlier(s, pos) == SubSeq(s, pos, Len(s))

\* s.substr(pos) that starts one character further on
substrFrom_OneLater(s, pos) == SubSeq(s, pos + 2, Len(s))

\* s.substr(pos), for pos <= s.size()
substrFrom(s, pos) == SubSeq(s, pos + 1, Len(s))

\* s.erase(pos, n)
erase(s, pos, n) == SubSeq(s, 1, pos) \o SubSeq(s, Min(pos + n, Len(s)) + 1, Len(s))

----------------------------------------------------------------------------
(* contains (lines 60-87) *)

\* contains with the test result > 0 in place of result >= 0 (line 69)
contains_PositiveOnly(s, substring) ==
    LET result == find(s, substring, 0)
    IN  IF result > 0 /\ ULessEq(result, Len(s)) THEN TRUE ELSE FALSE

contains(s, substring) ==
    LET result == find(s, substring, 0)     \* int result = str.find(substring)
    IN  IF result >= 0 /\ ULessEq(result, Len(s)) THEN TRUE
        ELSE IF result = npos THEN FALSE
        ELSE FALSE                          \* the "unexpected value" branch

----------------------------------------------------------------------------
(* findAll (lines 907-920) *)

\* the loop of findAll resuming two offsets further on: str.find(substr, pos + 2)
RECURSIVE findAllLoop_SkipsNextOffset(_, _, _, _)
findAllLoop_SkipsNextOffset(s, target, pos, positions) ==
    IF pos = npos THEN positions
    ELSE findAllLoop_SkipsNextOffset(s, target, find(s, target, pos + 2),
                                     Append(positions, pos))

RECURSIVE findAllLoop(_, _, _, _)
findAllLoop(s, target, pos, positions) ==
    IF pos = npos THEN positions
    ELSE findAllLoop(s, target, find(s, target, pos + 1), Append(positions, pos))

findAll(s, target) == findAllLoop(s, target, find(s, target, 0), << >>)

----------------------------------------------------------------------------
(* std::getline(stream, each, delim) on an istringstream (lines 145, 694, 758) *)

\* The stream is the text and a read offset.  A call at end of input
\* extracts nothing and fails; otherwise it extracts up to the next delim
\* (which it consumes) or up to the end of input.
getlineFails(s, pos) == pos >= Len(s)

getlineStop(s, pos, delim) ==
    LET hits == {p \in pos..(Len(s) - 1) : s[p + 1] = delim}
    IN  IF hits = {} THEN Len(s) ELSE CHOOSE p \in hits : \A q \in hits : p <= q

getlineEach(s, pos, delim) == SubSeq(s, pos + 1, getlineStop(s, pos, delim))

getlineNext(s, pos, delim) == Min(getlineStop(s, pos, delim) + 1, Len(s))

\* for (std::string each; std::getline(split, each, delim); v.push_back(each));
RECURSIVE getlineLoop(_, _, _, _)
getlineLoop(s, pos, delim, pushed) ==
    IF getlineFails(s, pos) THEN pushed
    ELSE getlineLoop(s, getlineNext(s, pos, delim), delim,
                     Append(pushed, getlineEach(s, pos, delim)))

----------------------------------------------------------------------------
(* separate (lines 110-200) *)

\* An outcome of a call: the value returned, or the process crashed.
Returned(v) == [crashed |-> FALSE, value |-> v]
Crashed == [crashed |-> TRUE, value |-> << >>]

\* separatedStrings.back().back() == separator[0] (line 152) is evaluated on
\* whatever the getline loop pushed last.  On an empty last element it reads
\* outside the string: undefined behaviour.
backOfEmptyString(separatedStrings) ==
    /\ separatedStrings # << >>
    /\ separatedStrings[Len(separatedStrings)] = << >>

popBackOfLast(separatedStrings) ==
    LET n == Len(separatedStrings)
        last == separatedStrings[n]
    IN  [separatedStrings EXCEPT ![n] = SubSeq(last, 1, Len(last) - 1)]

\* The single-character path (lines 133-157): the set of outcomes.  After
\* the read outside an empty string either the byte read differs from the
\* separator and the call goes on with the vector as it is, or the build's
\* checks (or pop_back() on the empty string) end the process.
separateSingleChar(s, c) ==
    LET separatedStrings == getlineLoop(s, 0, c, << >>)
    IN  IF separatedStrings = << >> THEN {Returned(separatedStrings)}
        ELSE IF backOfEmptyString(separatedStrings)
             THEN {Returned(separatedStrings), Crashed}
        ELSE IF separatedStrings[Len(separatedStrings)][Len(separatedStrings[Len(separatedStrings)])] = c
             THEN {Returned(popBackOfLast(separatedStrings))}
        ELSE {Returned(separatedStrings)}

\* The general path (lines 158-191): the loop over str, then the final push
RECURSIVE separateLoop(_, _, _, _, _)
separateLoop(s, separator, i, word, separatedStrings) ==
    IF i >= Len(s) THEN Append(separatedStrings, word)
    ELSE LET grown == Append(word, s[i + 1])
         IN  IF contains(grown, separator)
             THEN separateLoop(s, separator, i + 1, << >>,
                               Append(separatedStrings,
                                      erase(grown, find(grown, separator, 0), Len(separator))))
             ELSE separateLoop(s, separator, i + 1, grown, separatedStrings)

separateGeneral(s, separator) == separateLoop(s, separator, 0, << >>, << >>)

\* removal of an empty string at the end of the vector only
removeEmpty_LastOnly(separatedStrings) ==
    IF separatedStrings # << >> /\ separatedStrings[Len(separatedStrings)] = << >>
    THEN SubSeq(separatedStrings, 1, Len(separatedStrings) - 1)
    ELSE separatedStrings

\* std::remove(begin, end, "") and erase (line 196)
removeEmpty(separatedStrings) == SelectSeq(separatedStrings, LAMBDA w : w # << >>)

omitEmptyIf(omitEmptyStrings, outcome) ==
    IF omitEmptyStrings /\ ~outcome.crashed
    THEN Returned(removeEmpty(outcome.value))
    ELSE outcome

\* separate(str, separator, omitEmptyStrings): the set of outcomes
separate(s, separator, omitEmptyStrings) ==
    LET paths == IF Len(separator) = 1
                 THEN separateSingleChar(s, separator[1])
                 ELSE {Returned(separateGeneral(s, separator))}
    IN  {omitEmptyIf(omitEmptyStrings, o) : o \in paths}

----------------------------------------------------------------------------
(* The caller of separate, findAll and contains *)

Delimiters == TextsUpTo(SepChars, MaxSepLen)

InitSeparate ==
    /\ fn = "none"
    /\ str \in TextsUpTo(SepChars, MaxLen)
    /\ sub \in Delimiters
    /\ omit \in BOOLEAN
    /\ num = 0
    /\ ret = << >>
    /\ raised = "none"
    /\ coutPoint = "."
    /\ envLocale = "C"
    /\ frame = NoFrame

CallSeparate ==
    /\ \E o \in separate(str, sub, omit) :
          /\ ret' = o.value
          /\ raised' = IF o.crashed THEN "crash" ELSE "none"
    /\ fn' = "separate"
    /\ UNCHANGED <<str, sub, num, omit, coutPoint, envLocale, frame>>

CallFindAll ==
    /\ ret' = findAll(str, sub)
    /\ raised' = "none"
    /\ fn' = "findAll"
    /\ UNCHANGED <<str, sub, num, omit, coutPoint, envLocale, frame>>

CallContains ==
    /\ ret' = contains(str, sub)
    /\ raised' = "none"
    /\ fn' = "contains"
    /\ UNCHANGED <<str, sub, num, omit, coutPoint, envLocale, frame>>

NextSeparate == CallSeparate \/ CallFindAll \/ CallContains

SpecSeparate == InitSeparate /\ [][NextSeparate]_vars

----------------------------------------------------------------------------
(* trim (lines 477-496) *)

trim(s, charsToTrim) ==
    IF charsToTrim < 0 THEN s
    ELSE IF ULessEq(Len(s) \div 2, charsToTrim) THEN << >>
    ELSE substr(s, charsToTrim, Len(s) - (charsToTrim * 2))

----------------------------------------------------------------------------
(* countLines (lines 683-699) *)

\* countLines as std::count(str.begin(), str.end(), '\n')
countLines_CountsNewlines(s) == Cardinality({k \in 1..Len(s) : s[k] = "\n"})

countLines(s) == Len(getlineLoop(s, 0, "\n", << >>))

----------------------------------------------------------------------------
(* wrapToWidth (lines 747-824) *)

\* The while(true) loop (lines 761-810) on one line of input.  It gives the
\* output with this line's text added, what is left in `line` when the loop
\* breaks, and whether a substr call threw std::out_of_range (its start
\* offset beyond the size of the line).
RECURSIVE wrapLine(_, _, _)
wrapLine(line, wrapWidth, output) ==
    IF ULess(wrapWidth, Len(line))                  \* line.length() > wrapWidth
    THEN LET lineCutOffIndex == rfind(line, <<" ">>, wrapWidth)
             cut == IF lineCutOffIndex = npos THEN wrapWidth ELSE lineCutOffIndex
         IN  IF ULess(Len(line), cut + 1)
             THEN [output |-> output \o substr(line, 0, cut) \o <<"\n">>,
                   line |-> line, thrown |-> TRUE]
             ELSE wrapLine(substrFrom(line, cut + 1), wrapWidth,
                           output \o substr(line, 0, cut) \o <<"\n">>)
    ELSE [output |-> output \o line, line |-> line, thrown |-> FALSE]

\* the outer loop of wrapToWidth with a newline after every line, the last included
RECURSIVE wrapLoop_NewlineAfterEveryLine(_, _, _, _, _, _)
wrapLoop_NewlineAfterEveryLine(s, wrapWidth, pos, output, numberOfLines, currLineNum) ==
    IF getlineFails(s, pos) THEN [output |-> output, thrown |-> FALSE]
    ELSE LET wrapped == wrapLine(getlineEach(s, pos, "\n"), wrapWidth, output)
         IN  IF wrapped.thrown THEN [output |-> wrapped.output, thrown |-> TRUE]
             ELSE wrapLoop_NewlineAfterEveryLine(s, wrapWidth, getlineNext(s, pos, "\n"),
                                                 wrapped.output \o <<"\n">>,
                                                 numberOfLines, currLineNum + 1)

\* The while(getline(in, line)) loop (lines 758-821); pos is the read
\* offset of `in`.
RECURSIVE wrapLoop(_, _, _, _, _, _)
wrapLoop(s, wrapWidth, pos, output, numberOfLines, currLineNum) ==
    IF getlineFails(s, pos) THEN [output |-> output, thrown |-> FALSE]
    ELSE LET line == getlineEach(s, pos, "\n")
             wrapped == wrapLine(line, wrapWidth, output)
             newline == \/ currLineNum + 1 < numberOfLines
                        \/ (Len(wrapped.line) = 0 /\ numberOfLines = 1)
         IN  IF wrapped.thrown THEN [output |-> wrapped.output, thrown |-> TRUE]
             ELSE wrapLoop(s, wrapWidth, getlineNext(s, pos, "\n"),
                           IF newline THEN wrapped.output \o <<"\n">> ELSE wrapped.output,
                           numberOfLines, currLineNum + 1)

wrapToWidth(s, wrapWidth) == wrapLoop(s, wrapWidth, 0, << >>, countLines(s), 0)

----------------------------------------------------------------------------
(* The caller of trim and wrapToWidth *)

InitText ==
    /\ fn = "none"
    /\ str \in TextsUpTo(TextChars, MaxTextLen)
    /\ num \in (0 - MaxNegative)..MaxCount
    /\ sub = << >>
    /\ omit = TRUE
    /\ ret = << >>
    /\ raised = "none"
    /\ coutPoint = "."
    /\ envLocale = "C"
    /\ frame = NoFrame

CallTrim ==
    /\ ret' = trim(str, num)
    /\ raised' = "none"
    /\ fn' = "trim"
    /\ UNCHANGED <<str, sub, num, omit, coutPoint, envLocale, frame>>

CallWrapToWidth ==
    /\ LET r == wrapToWidth(str, num)
       IN  /\ ret' = r.output
           /\ raised' = IF r.thrown THEN "out_of_range" ELSE "none"
    /\ fn' = "wrapToWidth"
    /\ UNCHANGED <<str, sub, num, omit, coutPoint, envLocale, frame>>

CallCountLines ==
    /\ ret' = countLines(str)
    /\ raised' = "none"
    /\ fn' = "countLines"
    /\ UNCHANGED <<str, sub, num, omit, coutPoint, envLocale, frame>>

NextText == CallTrim \/ CallWrapToWidth \/ CallCountLines

SpecText == InitText /\ [][NextText]_vars

----------------------------------------------------------------------------
(* isdigit and std::from_chars (lines 276, 290-292, 346, 372-375) *)

Digits == {"0", "1", "2", "3", "4", "5", "6", "7", "8", "9"}

isdigit(c) == c \in Digits

DigitValue(c) == CHOOSE v \in 0..9 : <<"0", "1", "2", "3", "4", "5", "6", "7", "8", "9">>[v + 1] = c

\* the longest run of digits of s that starts at offset pos
RECURSIVE DigitRun(_, _)
DigitRun(s, pos) ==
    IF pos < Len(s) /\ isdigit(s[pos + 1]) THEN <<s[pos + 1]>> \o DigitRun(s, pos + 1)
    ELSE << >>

RECURSIVE StripLeadingZeros(_)
StripLeadingZeros(digits) ==
    IF digits # << >> /\ digits[1] = "0" THEN StripLeadingZeros(Tail(digits)) ELSE digits

\* a <= b for two digit strings of the same length
RECURSIVE DigitsLessEq(_, _)
DigitsLessEq(a, b) ==
    IF a = << >> THEN TRUE
    ELSE IF DigitValue(a[1]) # DigitValue(b[1]) THEN DigitValue(a[1]) < DigitValue(b[1])
    ELSE DigitsLessEq(Tail(a), Tail(b))

\* std::numeric_limits<int>::max() and the magnitude of ::min(), in digits
IntMaxDigits == <<"2", "1", "4", "7", "4", "8", "3", "6", "4", "7">>
IntMinDigits == <<"2", "1", "4", "7", "4", "8", "3", "6", "4", "8">>

\* is the number with these digits and this sign an int
FitsInt(digits, negative) ==
    LET significant == StripLeadingZeros(digits)
        limit == IF negative THEN IntMinDigits ELSE IntMaxDigits
    IN  \/ Len(significant) < Len(limit)
        \/ Len(significant) = Len(limit) /\ DigitsLessEq(significant, limit)

HasMinus(s) == Len(s) >= 1 /\ s[1] = "-"

\* res.ec of std::from_chars(first, last, int&): it parses the longest
\* prefix of the form '-'? digit+
fromCharsInt(s) ==
    LET digits == DigitRun(s, IF HasMinus(s) THEN 1 ELSE 0)
    IN  IF digits = << >> THEN "invalid_argument"
        ELSE IF ~FitsInt(digits, HasMinus(s)) THEN "result_out_of_range"
        ELSE "ok"

\* The largest number of digits the integral part of a finite double has
\* (DBL_MAX is about 1.8e308).
DoubleMaxDigits == 309

\* res.ec of std::from_chars(first, last, double&, chars_format::general)
\* on a text without exponent: it parses the longest prefix of the form
\* '-'? (digit+ ('.' digit*)? | '.' digit+), whatever the locale.  A value
\* is out of range when its integral part has too many digits (the texts of
\* the model are far shorter).
fromCharsDouble(s) ==
    LET start == IF HasMinus(s) THEN 1 ELSE 0
        whole == DigitRun(s, start)
        afterWhole == start + Len(whole)
        fraction == IF afterWhole < Len(s) /\ s[afterWhole + 1] = "."
                    THEN DigitRun(s, afterWhole + 1) ELSE << >>
    IN  IF whole = << >> /\ fraction = << >> THEN "invalid_argument"
        ELSE IF Len(StripLeadingZeros(whole)) > DoubleMaxDigits THEN "result_out_of_range"
        ELSE "ok"

----------------------------------------------------------------------------
(* isInteger (lines 263-312) *)

\* the for loop (lines 265-280) returns false
isIntegerLoopRejects(s) ==
    \E charIndex \in 0..(Len(s) - 1) :
        /\ ~(charIndex = 0 /\ s[charIndex + 1] = "-")
        /\ ~isdigit(s[charIndex + 1])

\* isInteger, except that an overflow reported by from_chars is ignored
isInteger_IgnoresOverflow(s) ==
    IF isIntegerLoopRejects(s) THEN FALSE
    ELSE IF fromCharsInt(s) = "invalid_argument" THEN FALSE
    ELSE TRUE

isInteger(s) ==
    IF isIntegerLoopRejects(s) THEN FALSE
    ELSE IF fromCharsInt(s) = "invalid_argument" THEN FALSE
    ELSE IF fromCharsInt(s) = "result_out_of_range" THEN FALSE
    ELSE TRUE

----------------------------------------------------------------------------
(* isFloat (lines 322-389) *)

\* The for loop (lines 327-350) from offset charIndex on.  It gives whether
\* the loop returned false and, if not, seenDecimalPoint after it.
RECURSIVE isFloatLoop(_, _, _, _)
isFloatLoop(s, point, charIndex, seenDecimalPoint) ==
    IF charIndex >= Len(s) THEN [rejected |-> FALSE, seenDecimalPoint |-> seenDecimalPoint]
    ELSE IF charIndex = 0 /\ s[charIndex + 1] = "-"
         THEN isFloatLoop(s, point, charIndex + 1, seenDecimalPoint)
    ELSE IF ~seenDecimalPoint /\ s[charIndex + 1] = point
         THEN isFloatLoop(s, point, charIndex + 1, TRUE)
    ELSE IF ~isdigit(s[charIndex + 1])
         THEN [rejected |-> TRUE, seenDecimalPoint |-> seenDecimalPoint]
    ELSE isFloatLoop(s, point, charIndex + 1, seenDecimalPoint)

\* isFloat, except that the test of seenDecimalPoint (lines 357-360) is missing
isFloat_NoPointNeeded(s, point) ==
    LET loop == isFloatLoop(s, point, 0, FALSE)
    IN  IF loop.rejected THEN FALSE
        ELSE IF fromCharsDouble(s) = "invalid_argument" THEN FALSE
        ELSE IF fromCharsDouble(s) = "result_out_of_range" THEN FALSE
        ELSE TRUE

\* point is decimal_point() of std::cout's locale (line 326)
isFloat(s, point) ==
    LET loop == isFloatLoop(s, point, 0, FALSE)
    IN  IF loop.rejected THEN FALSE
        ELSE IF ~loop.seenDecimalPoint THEN FALSE
        ELSE IF fromCharsDouble(s) = "invalid_argument" THEN FALSE
        ELSE IF fromCharsDouble(s) = "result_out_of_range" THEN FALSE
        ELSE TRUE

----------------------------------------------------------------------------
(* isNumber (lines 407-410) *)

isNumber(s, point) == isInteger(s) \/ isFloat(s, point)

----------------------------------------------------------------------------
(* The caller of isInteger, isFloat and isNumber *)

\* the decimal points of the locales a program imbues in std::cout
DecimalPoints == {".", ","}

\* literals around the limits of int, longer than MaxNumLen
LimitLiterals ==
    { IntMaxDigits, IntMinDigits,
      <<"-">> \o IntMaxDigits, <<"-">> \o IntMinDigits,
      <<"-", "2", "1", "4", "7", "4", "8", "3", "6", "4", "9">>,
      <<"0", "0">> \o IntMaxDigits, <<"0">> \o IntMinDigits,
      <<"1", "9", "9", "9", "9", "9", "9", "9", "9", "9">>,
      <<"9", "9", "9", "9", "9", "9", "9", "9", "9", "9", "9",
        "9", "9", "9", "9", "9", "9", "9", "9", "9", "9">> }

InitNumber ==
    /\ fn = "none"
    /\ str \in TextsUpTo(NumChars, MaxNumLen) \cup LimitLiterals
    /\ coutPoint \in DecimalPoints
    /\ envLocale = "C"
    /\ frame = NoFrame
    /\ sub = << >>
    /\ num = 0
    /\ omit = TRUE
    /\ ret = FALSE
    /\ raised = "none"

CallIsInteger ==
    /\ ret' = isInteger(str)
    /\ raised' = "none"
    /\ fn' = "isInteger"
    /\ UNCHANGED <<str, sub, num, omit, coutPoint, envLocale, frame>>

CallIsFloat ==
    /\ ret' = isFloat(str, coutPoint)
    /\ raised' = "none"
    /\ fn' = "isFloat"
    /\ UNCHANGED <<str, sub, num, omit, coutPoint, envLocale, frame>>

CallIsNumber ==
    /\ ret' = isNumber(str, coutPoint)
    /\ raised' = "none"
    /\ fn' = "isNumber"
    /\ UNCHANGED <<str, sub, num, omit, coutPoint, envLocale, frame>>

NextNumber == CallIsInteger \/ CallIsFloat \/ CallIsNumber

SpecNumber == InitNumber /\ [][NextNumber]_vars

----------------------------------------------------------------------------
(* Claims about separate and findAll *)

\* joining segments with the delimiter re-inserted between consecutive ones
RECURSIVE JoinWith(_, _)
JoinWith(segments, delimiter) ==
    IF segments = << >> THEN << >>
    ELSE IF Len(segments) = 1 THEN segments[1]
    ELSE segments[1] \o delimiter \o JoinWith(Tail(segments), delimiter)

\* C1: for every text and every non-empty delimiter, separate(T, D, false)
\* returns a sequence of length findAll(T, D).length + 1.
C1_SegmentCountIsOccurrencesPlusOne ==
    (fn = "separate" /\ sub # << >> /\ ~omit)
        => (raised = "none" /\ Len(ret) = Len(findAll(str, sub)) + 1)

\* C2: for every text and every non-empty delimiter, the segments of
\* separate(T, D, false) joined with D between them give back T.
C2_JoinOfSegmentsIsText ==
    (fn = "separate" /\ sub # << >> /\ ~omit)
        => (raised = "none" /\ JoinWith(ret, sub) = str)

\* C6 as stated: findAll(T, "") returns T.length() positions for a non-empty
\* T and none for the empty T.
C6_EmptyTargetCountIsLength ==
    (fn = "findAll" /\ sub = << >>)
        => Len(ret) = (IF str = << >> THEN 0 ELSE Len(str))

\* C6 as amended: findAll(T, "") returns T.length() + 1 positions for every
\* text T, one per character boundary, so one position for the empty T.
C6_EmptyTargetCountIsLengthPlusOne ==
    (fn = "findAll" /\ sub = << >>) => Len(ret) = Len(str) + 1

C6_Witness ==
    fn = "findAll" /\ sub = << >> /\ str = <<"a", "b">> /\ ret = <<0, 1, 2>>

\* does target occur in text as a contiguous subsequence, at offset i
OccursAt(text, target, i) ==
    /\ i + Len(target) <= Len(text)
    /\ SubSeq(text, i + 1, i + Len(target)) = target

Occurs(text, target) == \E i \in 0..Len(text) : OccursAt(text, target, i)

\* C12: splitting the empty text by a non-empty delimiter gives [""] with
\* omitEmpty = false and [] with omitEmpty = true.
C12_EmptyTextSplit ==
    (fn = "separate" /\ str = << >> /\ sub # << >>)
        => (raised = "none" /\ ret = (IF omit THEN << >> ELSE << << >> >>))

\* C13: with the empty delimiter, separate returns exactly one segment per
\* character of T, in order, for both values of omitEmpty.
C13_EmptyDelimiterSplitsCharacters ==
    (fn = "separate" /\ sub = << >>)
        => (raised = "none" /\ ret = [k \in 1..Len(str) |-> <<str[k]>>])

\* C14: contains(T, target) is true exactly when target occurs in T as a
\* contiguous subsequence; the empty target occurs in every T, and no
\* non-empty target occurs in the empty T.
C14_ContainsIffOccurs ==
    fn = "contains" => ret = Occurs(str, sub)

C14_Witness ==
    fn = "contains" /\ str = <<"a", "b">> /\ sub = <<"b">> /\ ret = TRUE

\* C15: for a non-empty target S, findAll(T, S) lists exactly the offsets i
\* with T[i .. i+S.length()) = S, in strictly increasing order, overlapping
\* matches included.
C15_FindAllListsEveryOffset ==
    (fn = "findAll" /\ sub # << >>)
        => /\ \A j \in 1..(Len(ret) - 1) : ret[j] < ret[j + 1]
           /\ {ret[j] : j \in 1..Len(ret)} = {i \in 0..Len(str) : OccursAt(str, sub, i)}

C15_Witness ==
    fn = "findAll" /\ str = <<"a", "a", "a">> /\ sub = <<"a", "a">> /\ ret = <<0, 1>>

\* C16: for every text and every delimiter (empty, of one character or of
\* more), what separate(T, D, true) returns holds no zero-length segment.
C16_NoEmptySegmentWhenOmitting ==
    (fn = "separate" /\ omit /\ raised = "none")
        => \A k \in 1..Len(ret) : ret[k] # << >>

C16_Witness ==
    /\ fn = "separate" /\ omit /\ raised = "none"
    /\ str = <<",", "a", ",", "b">> /\ sub = <<",">>
    /\ ret = << <<"a">>, <<"b">> >>

\* C17: for a non-empty delimiter that does not occur in T, separate returns
\* the one-element sequence [T] (and [] for the empty T with omitEmpty = true).
C17_NoDelimiterGivesWholeText ==
    (fn = "separate" /\ sub # << >> /\ ~Occurs(str, sub))
        => (raised = "none" /\ ret = (IF str = << >> /\ omit THEN << >> ELSE <<str>>))

----------------------------------------------------------------------------
(* Claims about trim and wrapToWidth *)

\* the characters std::isspace classifies as whitespace in the "C" locale
\* ("\\v" stands for the vertical tab, which a TLA+ string cannot hold)
Whitespace == {" ", "\t", "\n", "\\v", "\f", "\r"}

HasWhitespace(text) == \E k \in 1..Len(text) : text[k] \in Whitespace

\* consecutive chunks of w characters, the last possibly shorter, joined by
\* single newlines
RECURSIVE ChunksOf(_, _)
ChunksOf(text, w) ==
    IF Len(text) <= w THEN text
    ELSE SubSeq(text, 1, w) \o <<"\n">> \o ChunksOf(SubSeq(text, w + 1, Len(text)), w)

\* C3: trim(T, 0) returns T unchanged for every text T, of length 0 and 1
\* included.
C3_TrimZeroIsIdentity ==
    (fn = "trim" /\ num = 0) => ret = str

\* C4: for every count n >= 0, trim(T, n) is empty when 2n >= T.length() and
\* is otherwise T[n .. T.length()-n), of length T.length() - 2n.
C4_TrimCutsBothEdges ==
    (fn = "trim" /\ num >= 0)
        => ret = (IF 2 * num >= Len(str) THEN << >>
                  ELSE SubSeq(str, num + 1, Len(str) - num))

\* C5: trim(T, n) with a negative n fails with InvalidArgument and returns
\* no text.
C5_TrimNegativeFails ==
    (fn = "trim" /\ num < 0) => raised = "InvalidArgument"

\* C7: a one-line text without whitespace is cut, for every width w >= 1,
\* into consecutive chunks of exactly w characters joined by single
\* newlines, with no character dropped and no newline at the end.
C7_WrapCutsIntoChunks ==
    (fn = "wrapToWidth" /\ num >= 1 /\ ~HasWhitespace(str))
        => (raised = "none" /\ ret = ChunksOf(str, num))

\* C8: for every text and every width <= 0, wrapToWidth returns the empty
\* text.
C8_WrapNonPositiveWidthIsEmpty ==
    (fn = "wrapToWidth" /\ num <= 0) => (raised = "none" /\ ret = << >>)

----------------------------------------------------------------------------
(* Claims about isFloat and isInteger *)

AllDigits(text) == \A k \in 1..Len(text) : text[k] \in Digits

Unsigned(text) == IF text # << >> /\ text[1] = "-" THEN Tail(text) ELSE text

\* '-'? digit* point digit*, with exactly one decimal-point character
MatchesFloatGrammar(text, point) ==
    \E k \in 1..Len(Unsigned(text)) :
        /\ Unsigned(text)[k] = point
        /\ AllDigits(SubSeq(Unsigned(text), 1, k - 1))
        /\ AllDigits(SubSeq(Unsigned(text), k + 1, Len(Unsigned(text))))

\* '-'? digit+
MatchesIntegerGrammar(text) == Unsigned(text) # << >> /\ AllDigits(Unsigned(text))

\* the value of a digit string, every value above 214748369 given as 214748370
RECURSIVE ValueUpTo(_, _)
ValueUpTo(digits, k) ==
    IF k = 0 THEN 0
    ELSE LET upper == ValueUpTo(digits, k - 1)
         IN  IF upper >= 21474837 THEN 214748370
             ELSE upper * 10 + DigitValue(digits[k])

\* a text of the integer grammar has its value in -2^31 .. 2^31 - 1
InIntRange(text) ==
    LET digits == Unsigned(text)
        tens == ValueUpTo(digits, Len(digits) - 1)
        unit == DigitValue(digits[Len(digits)])
    IN  \/ tens < 214748364
        \/ tens = 214748364 /\ unit <= (IF text[1] = "-" THEN 8 ELSE 7)

C10_IntegerIffGrammarAndRange ==
    fn = "isInteger"
        => (raised = "none" /\ ret = (MatchesIntegerGrammar(str) /\ InIntRange(str)))

C10_Witness ==
    fn = "isInteger" /\ str = IntMinDigits /\ ret = FALSE

----------------------------------------------------------------------------
(* Claims about countLines *)

NewlineCount(text) == Cardinality({k \in 1..Len(text) : text[k] = "\n"})

----------------------------------------------------------------------------
(* Claims about the lines of wrapToWidth *)

NewlineOffsets(text) == {p \in 0..(Len(text) - 1) : text[p + 1] = "\n"}

FirstNewline(text) == CHOOSE p \in NewlineOffsets(text) : \A q \in NewlineOffsets(text) : p <= q

\* the first line of a text: what precedes its first newline
FirstLineOf(text) ==
    IF NewlineOffsets(text) = {} THEN text ELSE SubSeq(text, 1, FirstNewline(text))

\* the lines of a text; a newline at the very end ends the last line and
\* starts no other
RECURSIVE LinesOf(_)
LinesOf(text) ==
    IF text = << >> THEN << >>
    ELSE IF NewlineOffsets(text) = {} THEN <<text>>
    ELSE <<FirstLineOf(text)>> \o LinesOf(SubSeq(text, FirstNewline(text) + 2, Len(text)))

\* the offsets <= width of the first line that hold one of the given characters
BreakOffsets(text, width, chars) ==
    {p \in 0..Min(width, Len(FirstLineOf(text)) - 1) : text[p + 1] \in chars}

LastBreak(text, width, chars) ==
    CHOOSE p \in BreakOffsets(text, width, chars) :
        \A q \in BreakOffsets(text, width, chars) : q <= p

\* the output starts with the text before offset cut and a newline, the
\* character at cut is gone, and the output goes on with the wrapping of
\* what follows cut
BreaksAt(cut) ==
    /\ Len(ret) >= cut + 1
    /\ SubSeq(ret, 1, cut + 1) = SubSeq(str, 1, cut) \o <<"\n">>
    /\ cut + 1 < Len(str)
          => SubSeq(ret, cut + 2, Len(ret))
                = wrapToWidth(SubSeq(str, cut + 2, Len(str)), num).output

\* C18 as stated: a line longer than width is broken at its last whitespace
\* character (space, tab, ...) at an offset <= width: the text before it and
\* a newline are emitted, that character is discarded, and the remainder is
\* wrapped in turn.
C18_BreaksAtLastWhitespace ==
    (/\ fn = "wrapToWidth"
     /\ Len(FirstLineOf(str)) > num
     /\ BreakOffsets(str, num, Whitespace) # {})
        => BreaksAt(LastBreak(str, num, Whitespace))

\* C18 as amended: a line longer than width is broken at its last space
\* character ' ' at an offset <= width (a tab or another whitespace
\* character is no break point): the text before the space and a newline
\* are emitted, the space is discarded, and the remainder is wrapped in turn.
C18_BreaksAtLastSpace ==
    (/\ fn = "wrapToWidth"
     /\ Len(FirstLineOf(str)) > num
     /\ BreakOffsets(str, num, {" "}) # {})
        => (raised = "none" /\ BreaksAt(LastBreak(str, num, {" "})))

C18_Witness ==
    /\ fn = "wrapToWidth" /\ num = 3
    /\ str = <<"a", " ", "b", " ">>
    /\ SubSeq(ret, 1, 4) = <<"a", " ", "b", "\n">>

\* every line of the text fits the width
EveryLineFits(text, width) ==
    \A k \in 1..Len(LinesOf(text)) : Len(LinesOf(text)[k]) <= width

\* C19 as stated: when every line of the text has length <= width, the
\* output is the lines unchanged with exactly one newline between
\* consecutive lines and none after the last.
C19_FittingLinesUnchanged ==
    (fn = "wrapToWidth" /\ EveryLineFits(str, num))
        => ret = JoinWith(LinesOf(str), <<"\n">>)

\* C19 as amended: the same, the lines being those std::getline reads (a
\* newline at the very end of the text ends its last line and is not
\* emitted), except that the text made of one newline alone is returned as
\* one newline.
C19_FittingLinesUnchangedButLoneNewline ==
    (fn = "wrapToWidth" /\ EveryLineFits(str, num))
        => /\ raised = "none"
           /\ ret = (IF str = <<"\n">> THEN <<"\n">>
                     ELSE JoinWith(LinesOf(str), <<"\n">>))

C19_Witness ==
    /\ fn = "wrapToWidth" /\ num = 2
    /\ str = <<"a", "b", "\n", "b">>
    /\ ret = <<"a", "b", "\n", "b">>

\* C20: for every width >= 1, every line of the output of wrapToWidth has
\* at most width characters: among any width + 1 consecutive characters of
\* the output there is a newline.
C20_OutputFitsWidth ==
    (fn = "wrapToWidth" /\ num >= 1 /\ raised = "none")
        => \A i \in 1..(Len(ret) - num) : \E k \in i..(i + num) : ret[k] = "\n"

C20_Witness ==
    /\ fn = "wrapToWidth" /\ num = 2
    /\ str = <<"a", "b", " ", "a">>
    /\ ret = <<"a", "b", "\n", "a">>

(* toUpper (lines 249-253) and string_to_bool (lines 429-448) *)

MaxCaseLen == 4     \* longest text given to toUpper / string_to_bool

CaseChars == {"t", "r", "u", "e", "0", "1", ".", "-"}

LowerCase == <<"a", "b", "c", "d", "e", "f", "g", "h", "i", "j", "k", "l", "m",
               "n", "o", "p", "q", "r", "s", "t", "u", "v", "w", "x", "y", "z">>
UpperCase == <<"A", "B", "C", "D", "E", "F", "G", "H", "I", "J", "K", "L", "M",
               "N", "O", "P", "Q", "R", "S", "T", "U", "V", "W", "X", "Y", "Z">>

\* std::toupper(x) (line 251)
toupper(c) ==
    IF \E i \in 1..Len(LowerCase) : LowerCase[i] = c
    THEN UpperCase[CHOOSE i \in 1..Len(LowerCase) : LowerCase[i] = c]
    ELSE c

\* std::transform(str.begin(), str.end(), str.begin(), toupper) (line 251):
\* the characters str holds after it.  str is a reference to the caller's
\* string (line 249), so this is what the caller's string holds as well.
toUpper(s) == [i \in 1..Len(s) |-> toupper(s[i])]

\* std::stoi(str) (line 445) on a text without leading whitespace or '+':
\* the exception it throws ("none" if it returns) and whether the value it
\* returns is zero
stoi(s) ==
    LET digits == DigitRun(s, IF HasMinus(s) THEN 1 ELSE 0)
    IN  IF digits = << >> THEN [thrown |-> "invalid_argument", zero |-> FALSE]
        ELSE IF ~FitsInt(digits, HasMinus(s)) THEN [thrown |-> "out_of_range", zero |-> FALSE]
        ELSE [thrown |-> "none", zero |-> StripLeadingZeros(digits) = << >>]

\* string_to_bool: what it returns, how it ends and what it leaves in the
\* caller's string.  toUpper(str) at line 432 has rewritten str before
\* isNumber(str) and std::stoi(str) read it.
string_to_bool(s, point) ==
    LET upper == toUpper(s)
    IN  IF upper = <<"T", "R", "U", "E">>
        THEN [value |-> TRUE, thrown |-> "none", str |-> upper]
        ELSE IF isNumber(upper, point)
        THEN [value |-> stoi(upper).thrown = "none" /\ ~stoi(upper).zero,
              thrown |-> stoi(upper).thrown, str |-> upper]
        ELSE [value |-> FALSE, thrown |-> "none", str |-> upper]

----------------------------------------------------------------------------
(* The caller of toUpper and string_to_bool *)

InitCase ==
    /\ fn = "none"
    /\ str \in TextsUpTo(CaseChars, MaxCaseLen)
    /\ coutPoint \in DecimalPoints
    /\ sub = << >>
    /\ num = 0
    /\ omit = TRUE
    /\ ret = FALSE
    /\ raised = "none"
    /\ envLocale = "C"
    /\ frame = NoFrame

CallToUpper ==
    /\ str' = toUpper(str)
    /\ ret' = toUpper(str)
    /\ raised' = "none"
    /\ fn' = "toUpper"
    /\ UNCHANGED <<sub, num, omit, coutPoint, envLocale, frame>>

CallStringToBool ==
    /\ LET r == string_to_bool(str, coutPoint)
       IN  /\ str' = r.str
           /\ ret' = r.value
           /\ raised' = r.thrown
    /\ fn' = "string_to_bool"
    /\ UNCHANGED <<sub, num, omit, coutPoint, envLocale, frame>>

NextCase == CallToUpper \/ CallStringToBool

SpecCase == InitCase /\ [][NextCase]_vars

----------------------------------------------------------------------------
(* Claims about the caller's text *)

\* C21: no call changes the text the caller passed in: the caller's string
\* holds the same characters after every step as before it.
C21_CallerTextUnchanged == [][str' = str]_vars

----------------------------------------------------------------------------
(* Claims about process-wide state *)

\* C22: the result of a call depends on its arguments only: whatever
\* locale is imbued in std::cout, isFloat returns for a text what it returns
\* for that text under every other locale.
C22_FloatIgnoresCoutLocale ==
    fn = "isFloat" => \A point \in DecimalPoints : ret = isFloat(str, point)

----------------------------------------------------------------------------
(* std::isspace (lines 511, 938) *)

MaxWsLen == 4       \* longest text given to removeWhitespace / trimWhitespace

\* the character 0xA0 (no-break space); "\\v" is the vertical tab
nbsp == "\\xa0"

WsChars == {"a", " ", "\t", "\n", nbsp}

\* The locales of the model: the "C" locale, and a single-byte locale whose
\* ctype also classifies the no-break space as whitespace (as the Latin-1
\* locales of some C libraries do).
Locales == {"C", "Latin1"}

\* std::isspace(ch, loc) of <locale> with a blank-only classification
isspaceIn_BlankOnly(ch, loc) == ch = " "

\* std::isspace(ch, loc) of <locale> (lines 938, 941)
isspaceIn(ch, loc) ==
    \/ ch \in {" ", "\t", "\n", "\\v", "\f", "\r"}
    \/ loc = "Latin1" /\ ch = nbsp

\* std::isspace(x) of <cctype> (line 511) classifies by the C locale of the
\* process, which is "C" from program start on; the library never calls
\* setlocale.
isspace(x) == isspaceIn(x, "C")

----------------------------------------------------------------------------
(* removeWhitespace (lines 509-513) *)

\* std::remove_if that stops after the first character it removes
RECURSIVE remove_if_FirstOnly(_, _, _)
remove_if_FirstOnly(s, i, kept) ==
    IF i >= Len(s) THEN kept
    ELSE IF isspace(s[i + 1]) THEN kept \o SubSeq(s, i + 2, Len(s))
    ELSE remove_if_FirstOnly(s, i + 1, Append(kept, s[i + 1]))

\* std::remove_if(str.begin(), str.end(), isspace) from offset i on: the
\* characters moved to the front of str, which are what the erase of the
\* tail [new end, str.end()) leaves
RECURSIVE remove_if(_, _, _)
remove_if(s, i, kept) ==
    IF i >= Len(s) THEN kept
    ELSE IF isspace(s[i + 1]) THEN remove_if(s, i + 1, kept)
    ELSE remove_if(s, i + 1, Append(kept, s[i + 1]))

removeWhitespace(s) == remove_if(s, 0, << >>)

----------------------------------------------------------------------------
(* getWhitespaceString (lines 934-944) and trimWhitespace (lines 958-973) *)

\* the characters of the model from numeric_limits<char>::min() to ::max()
CharRange == <<nbsp, "\t", "\n", "\\v", "\f", "\r", " ", "a">>

getWhitespaceString(loc) == SelectSeq(CharRange, LAMBDA ch : isspaceIn(ch, loc))

InString(c, chars) == \E i \in 1..Len(chars) : chars[i] = c

\* str.find_first_not_of(chars) (line 963)
find_first_not_of(s, chars) ==
    LET offsets == {p \in 0..(Len(s) - 1) : ~InString(s[p + 1], chars)}
    IN  IF offsets = {} THEN npos
        ELSE CHOOSE p \in offsets : \A q \in offsets : p <= q

\* str.find_last_not_of(chars) that gives the last offset of str whatever is there
find_last_not_of_LastOffset(s, chars) == Len(s) - 1

\* str.find_last_not_of(chars) (line 969)
find_last_not_of(s, chars) ==
    LET offsets == {p \in 0..(Len(s) - 1) : ~InString(s[p + 1], chars)}
    IN  IF offsets = {} THEN npos
        ELSE CHOOSE p \in offsets : \A q \in offsets : q <= p

\* loc is std::locale(""), the locale of the environment (line 961)
trimWhitespace(s, loc) ==
    LET whitespace == getWhitespaceString(loc)
        strBegin == find_first_not_of(s, whitespace)
        strEnd == find_last_not_of(s, whitespace)
        strRange == strEnd - strBegin + 1
    IN  IF strBegin = npos THEN << >>
        ELSE substr(s, strBegin, strRange)

----------------------------------------------------------------------------
(* The caller of removeWhitespace and trimWhitespace *)

InitWhitespace ==
    /\ fn = "none"
    /\ str \in TextsUpTo(WsChars, MaxWsLen)
    /\ envLocale \in Locales
    /\ sub = << >>
    /\ num = 0
    /\ omit = TRUE
    /\ ret = << >>
    /\ raised = "none"
    /\ coutPoint = "."
    /\ frame = NoFrame

CallRemoveWhitespace ==
    /\ ret' = removeWhitespace(str)
    /\ raised' = "none"
    /\ fn' = "removeWhitespace"
    /\ UNCHANGED <<str, sub, num, omit, coutPoint, envLocale, frame>>

CallTrimWhitespace ==
    /\ ret' = trimWhitespace(str, envLocale)
    /\ raised' = "none"
    /\ fn' = "trimWhitespace"
    /\ UNCHANGED <<str, sub, num, omit, coutPoint, envLocale, frame>>

NextWhitespace == CallRemoveWhitespace \/ CallTrimWhitespace

SpecWhitespace == InitWhitespace /\ [][NextWhitespace]_vars

----------------------------------------------------------------------------
(* Claims about removeWhitespace and trimWhitespace *)

\* C23: removeWhitespace returns the characters of the text that are not
\* whitespace (space, \t, \n, \v, \f, \r), in the order they have in it.
C23_KeepsNonWhitespaceInOrder ==
    fn = "removeWhitespace" => ret = SelectSeq(str, LAMBDA c : c \notin Whitespace)

C23_Witness ==
    /\ fn = "removeWhitespace"
    /\ str = <<" ", "a", "\t", "a">>
    /\ ret = <<"a", "a">>

\* C24: removeWhitespace is idempotent: applied to what it returned it
\* returns the same text.
C24_RemoveWhitespaceIdempotent ==
    fn = "removeWhitespace" => removeWhitespace(ret) = ret

C24_Witness ==
    /\ fn = "removeWhitespace"
    /\ str = <<" ", "\n", "a", " ">>
    /\ ret = <<"a">>
    /\ removeWhitespace(ret) = <<"a">>

\* the offsets of the characters of text that the locale does not classify
\* as whitespace
ContentOffsets(text, loc) ==
    {p \in 0..(Len(text) - 1) :
        ~(text[p + 1] \in Whitespace \/ (loc = "Latin1" /\ text[p + 1] = nbsp))}

\* C25: trimWhitespace returns the text from its first to its last
\* non-whitespace character, interior whitespace included; the empty text
\* when there is no such character; the text itself when it neither starts
\* nor ends with whitespace.
C25_TrimWhitespaceKeepsFirstToLast ==
    fn = "trimWhitespace"
        => LET content == ContentOffsets(str, envLocale)
               first == CHOOSE p \in content : \A q \in content : p <= q
               last == CHOOSE p \in content : \A q \in content : q <= p
           IN  /\ content = {} => ret = << >>
               /\ content # {} => ret = SubSeq(str, first + 1, last + 1)
               /\ (str # << >> /\ 0 \in content /\ (Len(str) - 1) \in content)
                     => ret = str

C25_Witness ==
    /\ fn = "trimWhitespace"
    /\ str = <<" ", "a", " ", "a">>
    /\ ret = <<"a", " ", "a">>

----------------------------------------------------------------------------
(* Claims about findAll with the empty target *)

\* C26: findAll with the empty target returns the offsets 0, 1, ..,
\* length of the text in that order (so [0] for the empty text).
C26_EmptyTargetOffsets ==
    (fn = "findAll" /\ sub = << >>)
        => ret = [k \in 1..(Len(str) + 1) |-> k - 1]

C26_Witness ==
    /\ fn = "findAll"
    /\ sub = << >>
    /\ str = <<"a", "b", ",">>
    /\ ret = <<0, 1, 2, 3>>

----------------------------------------------------------------------------
(* Claims about the hard break of wrapToWidth *)

----------------------------------------------------------------------------
(* wrapToWidth (lines 747-824), statement by statement *)

MaxWrapLen == 3     \* longest text given to the wrapToWidth that is run in steps

\* The locals of wrapToWidth after their initialisation (lines 750-756); pos
\* is the read offset of the stream `in`, pc the statement to run next.
WrapEntryFrame(s) ==
    [pc |-> "getline", line |-> << >>, output |-> << >>, pos |-> 0,
     lineCutOffIndex |-> 0, numberOfLines |-> countLines(s), currLineNum |-> 0]

InitWrapSteps ==
    /\ fn = "none"
    /\ str \in TextsUpTo(TextChars, MaxWrapLen)
    /\ num \in (0 - MaxNegative)..MaxCount
    /\ sub = << >>
    /\ omit = TRUE
    /\ ret = << >>
    /\ raised = "none"
    /\ coutPoint = "."
    /\ envLocale = "C"
    /\ frame = NoFrame

\* the call and the initialisation of the locals (lines 747-756)
WrapEnter ==
    /\ fn = "none"
    /\ frame = NoFrame
    /\ frame' = WrapEntryFrame(str)
    /\ UNCHANGED <<fn, str, sub, num, omit, ret, raised, coutPoint, envLocale>>

\* while(getline(in, line)) reads a line (line 758); lineCutOffIndex = 0 (line 760)
WrapGetline ==
    /\ frame.pc = "getline"
    /\ ~getlineFails(str, frame.pos)
    /\ frame' = [frame EXCEPT !.pc = "wrap",
                              !.line = getlineEach(str, frame.pos, "\n"),
                              !.pos = getlineNext(str, frame.pos, "\n"),
                              !.lineCutOffIndex = 0]
    /\ UNCHANGED <<fn, str, sub, num, omit, ret, raised, coutPoint, envLocale>>

\* One pass through the body of while(true) (lines 763-809): a break of the
\* line (lines 770-803), or the rest of the line and the break statement
\* (lines 807-808).  A substr call with a start offset beyond the size of
\* the line throws std::out_of_range, which ends the call.
WrapIteration ==
    /\ frame.pc = "wrap"
    /\ IF ULess(num, Len(frame.line))
       THEN LET lineCutOffIndex == rfind(frame.line, <<" ">>, num)
                cut == IF lineCutOffIndex = npos THEN num ELSE lineCutOffIndex
            IN  IF ULess(Len(frame.line), cut + 1)
                THEN /\ frame' = NoFrame
                     /\ fn' = "wrapToWidth"
                     /\ raised' = "out_of_range"
                     /\ ret' = ret
                ELSE /\ frame' = [frame EXCEPT
                                     !.lineCutOffIndex = lineCutOffIndex,
                                     !.output = @ \o substr(frame.line, 0, cut) \o <<"\n">>,
                                     !.line = substrFrom(frame.line, cut + 1)]
                     /\ UNCHANGED <<fn, ret, raised>>
       ELSE /\ frame' = [frame EXCEPT !.pc = "endOfLine", !.output = @ \o frame.line]
            /\ UNCHANGED <<fn, ret, raised>>
    /\ UNCHANGED <<str, sub, num, omit, coutPoint, envLocale>>

\* currLineNum++ and the newline between lines (lines 811-820)
WrapEndOfLine ==
    /\ frame.pc = "endOfLine"
    /\ LET currLineNum == frame.currLineNum + 1
           newline == \/ currLineNum < frame.numberOfLines
                      \/ (Len(frame.line) = 0 /\ frame.numberOfLines = 1)
       IN  frame' = [frame EXCEPT !.pc = "getline",
                                  !.currLineNum = currLineNum,
                                  !.output = IF newline THEN @ \o <<"\n">> ELSE @]
    /\ UNCHANGED <<fn, str, sub, num, omit, ret, raised, coutPoint, envLocale>>

\* getline fails at the end of the input (line 758); return output (line 823)
WrapReturn ==
    /\ frame.pc = "getline"
    /\ getlineFails(str, frame.pos)
    /\ ret' = frame.output
    /\ raised' = "none"
    /\ fn' = "wrapToWidth"
    /\ frame' = NoFrame
    /\ UNCHANGED <<str, sub, num, omit, coutPoint, envLocale>>

NextWrapSteps == WrapEnter \/ WrapGetline \/ WrapIteration \/ WrapEndOfLine \/ WrapReturn

SpecWrapSteps == InitWrapSteps /\ [][NextWrapSteps]_vars

\* A call that has started keeps running: the thread is scheduled until the
\* call has ended.
SpecWrapStepsFair == SpecWrapSteps /\ WF_vars(NextWrapSteps)

----------------------------------------------------------------------------
(* Claims about the termination of wrapToWidth *)

\* C28: wrapToWidth terminates for every text and every width, zero and
\* negative widths included: a pass through the inner loop that does not
\* leave it leaves a strictly shorter line, no substr call gets a start
\* offset beyond the size of the line (no call ends in std::out_of_range),
\* and the call eventually returns.
C28_WrapTerminates ==
    /\ [][(frame.pc = "wrap" /\ frame'.pc = "wrap")
             => Len(frame'.line) < Len(frame.line)]_vars
    /\ [](raised # "out_of_range")
    /\ <>(fn = "wrapToWidth" /\ frame = NoFrame /\ raised = "none")

\* a call with width 0 that made hard breaks has returned
C28_Witness ==
    /\ fn = "wrapToWidth" /\ frame = NoFrame /\ raised = "none"
    /\ num = 0
    /\ str = <<"a", "b">>
    /\ ret = <<"\n", "\n", "\n">>

----------------------------------------------------------------------------
(* Claims about the two paths of separate *)

\* C29: for a one-character delimiter the single-character path returns
\* the segments the general path would return for the same text, delimiter
\* and omitEmpty.
C29_PathsAgree ==
    (fn = "separate" /\ Len(sub) = 1)
        => /\ raised = "none"
           /\ ret = omitEmptyIf(omit, Returned(separateGeneral(str, sub))).value

\* C30: in the single-character path the last element of the segment
\* vector is not empty when separatedStrings.back().back() is evaluated.
C30_NoReadOfEmptyLastSegment ==
    (fn = "separate" /\ Len(sub) = 1)
        => ~backOfEmptyString(getlineLoop(str, 0, sub[1], << >>))

----------------------------------------------------------------------------
=============================================================================
